---- MODULE Spec2Model ----
(***************************************************************************)
(* A model of scripts/tag-audit.py: the TagAuditor class (compliance       *)
(* check, the three audit adapters, report generation, summary) and main.  *)
(*                                                                         *)
(* Python values are represented as follows:                               *)
(*   - a str that the code inspects character by character (a tag value,   *)
(*     which is .strip()ped) is a sequence of one-character strings;       *)
(*   - a str that is only built by ','.join and taken apart by .split(',') *)
(*     is a sequence of tokens, the separator being the token ",";         *)
(*   - a dict is the sequence of its <<key, value>> items in insertion     *)
(*     order, keys pairwise distinct;                                      *)
(*   - the float compliance_score is the exact fraction [num, den].        *)
(***************************************************************************)
EXTENDS Integers, Sequences, FiniteSets, TLC

VARIABLES
    \* ---- the run of main() ----
    account,      \* the AWS account audited: how many resources of each kind exist
    pc,           \* position of the single thread of control
    i, j,         \* loop positions (outer / inner) of the adapter that is running
    results,      \* the running adapter's local list `results`
    all_results,  \* generate_report's local list `all_results`
    log,          \* records emitted through logger.error / logger.warning
    csv,          \* the output file: <<>> while absent, else <<[header, lines]>>
    summary,      \* what print_summary printed: <<>> for nothing, else <<statistics>>
    exitCode,     \* main()'s return value: <<>> while running, else <<code>>
    \* ---- history of the run (observations, not program state) ----
    calls,        \* the API calls and report steps issued so far, in order
    collected,    \* every row ever appended to a results list, in order
    failed,       \* the calls that raised
    \* ---- check_compliance exercised on its own ----
    in_tags, out_compliance,
    \* ---- print_summary exercised on its own ----
    in_results, out_summary

runVars  == <<account, pc, i, j, results, all_results, log, csv, summary, exitCode,
              calls, collected, failed>>
evalVars == <<in_tags, out_compliance>>
sumVars  == <<in_results, out_summary>>
vars     == <<runVars, evalVars, sumVars>>

(***************************************************************************)
(* Python helpers                                                          *)
(***************************************************************************)

\* the characters str.strip() removes among those the model uses
Whitespace == {" ", "\t", "\n"}

RECURSIVE lstrip(_)
lstrip(s) ==
    IF s = <<>> THEN s
    ELSE IF Head(s) \in Whitespace THEN lstrip(Tail(s)) ELSE s

RECURSIVE rstrip(_)
rstrip(s) ==
    IF s = <<>> THEN s
    ELSE IF s[Len(s)] \in Whitespace THEN rstrip(SubSeq(s, 1, Len(s) - 1)) ELSE s

\* variant of strip: the value is returned untrimmed
strip_omitted(s) == s

\* str.strip()
strip(s) == rstrip(lstrip(s))

\* key in d
DictHas(d, k) == \E n \in 1..Len(d) : d[n][1] = k

\* d[key]  (only used where key in d)
DictGet(d, k) == d[CHOOSE n \in 1..Len(d) : d[n][1] = k][2]

\* d.get(key, default)
DictGetOr(d, k, default) == IF DictHas(d, k) THEN DictGet(d, k) ELSE default

\* d[key] = value: an existing key keeps its position, a new key goes last
DictSet(d, k, v) ==
    IF DictHas(d, k)
    THEN [n \in 1..Len(d) |-> IF d[n][1] = k THEN <<k, v>> ELSE d[n]]
    ELSE Append(d, <<k, v>>)

\* {tag['Key']: tag['Value'] for tag in tag_list}
RECURSIVE DictFromTagList(_)
DictFromTagList(tag_list) ==
    IF tag_list = <<>> THEN <<>>
    ELSE LET last == tag_list[Len(tag_list)]
         IN  DictSet(DictFromTagList(SubSeq(tag_list, 1, Len(tag_list) - 1)),
                     last.Key, last.Value)

\* ','.join(parts)
RECURSIVE join(_)
join(parts) ==
    IF parts = <<>> THEN <<>>
    ELSE IF Len(parts) = 1 THEN <<parts[1]>>
    ELSE <<parts[1], ",">> \o join(Tail(parts))

\* text.split(','): the pieces between separators; every piece is a str, and the
\* empty str splits into one empty piece
RECURSIVE split(_)
split(text) ==
    IF \A n \in 1..Len(text) : text[n] # ","
    THEN <<text>>
    ELSE LET at == CHOOSE n \in 1..Len(text) :
                     text[n] = "," /\ \A m \in 1..(n - 1) : text[m] # ","
         IN  <<SubSeq(text, 1, at - 1)>> \o split(SubSeq(text, at + 1, Len(text)))

(***************************************************************************)
(* TagAuditor.__init__ and check_compliance                                *)
(***************************************************************************)

required_tags == <<"Environment", "Owner", "CostCenter", "Application">>

\* the condition of line 34
IsMissing(tags, required_tag) ==
    \/ ~DictHas(tags, required_tag)
    \/ strip(DictGet(tags, required_tag)) = <<>>

\* missing_tags after the loop has visited the first n required tags
RECURSIVE MissingAfter(_, _)
MissingAfter(tags, n) ==
    IF n = 0 THEN <<>>
    ELSE LET before == MissingAfter(tags, n - 1)
         IN  IF IsMissing(tags, required_tags[n])
             THEN Append(before, required_tags[n])
             ELSE before

\* variant of ComplianceRecord: the score counts the missing tags, not the present ones
ComplianceRecord_inverted(missing_tags) ==
    [compliant        |-> Len(missing_tags) = 0,
     missing_tags     |-> missing_tags,
     compliance_score |-> [num |-> Len(missing_tags), den |-> Len(required_tags)]]

\* the dict returned at lines 37-41
ComplianceRecord(missing_tags) ==
    [compliant        |-> Len(missing_tags) = 0,
     missing_tags     |-> missing_tags,
     compliance_score |-> [num |-> Len(required_tags) - Len(missing_tags),
                           den |-> Len(required_tags)]]

check_compliance(tags) == ComplianceRecord(MissingAfter(tags, Len(required_tags)))

(***************************************************************************)
(* The audited account (the environment of the run)                        *)
(***************************************************************************)

\* most resources of one top-level kind the account holds
MaxResources == 2
\* most services in one ECS cluster
MaxServices == 2
\* log groups per page of describe_log_groups
PageSize == 1
\* most API calls that raise in one run
MaxFailures == 2

Region == <<"us-east-1">>

\* what the account holds: `clusters` ECS clusters of `services` services each,
\* and `others` log groups, dashboards, NAT gateways and load balancers each
Accounts == {a \in [clusters : 0..MaxResources, services : 0..MaxServices,
                    others : 0..MaxResources] :
                a.clusters = 0 => a.services = 0}

NoRef == <<"", 0, 0>>
ClusterRef(c)      == <<"cluster", c, 0>>
ServiceRef(c, s)   == <<"service", c, s>>
LogGroupRef(g)     == <<"log-group", g, 0>>
DashboardRef(d)    == <<"dashboard", d, 0>>
NatGatewayRef(g)   == <<"natgateway", g, 0>>
LoadBalancerRef(b) == <<"loadbalancer", b, 0>>

\* the tag lists the account's resources carry
TagProfiles ==
    << << [Key |-> "Environment", Value |-> <<"p">>],
          [Key |-> "Owner",       Value |-> <<"a">>],
          [Key |-> "CostCenter",  Value |-> <<"1">>],
          [Key |-> "Application", Value |-> <<"s">>] >>,
       << [Key |-> "Application", Value |-> <<"s">>],
          [Key |-> "Owner",       Value |-> <<" ", " ">>],
          [Key |-> "Environment", Value |-> <<"p">>],
          [Key |-> "CostCenter",  Value |-> <<"1">>] >>,
       << [Key |-> "Team",        Value |-> <<"t">>],
          [Key |-> "Environment", Value |-> <<"p">>] >>,
       << [Key |-> "CostCenter",  Value |-> <<"1">>],
          [Key |-> "Environment", Value |-> <<"p">>],
          [Key |-> "Owner",       Value |-> <<"a">>] >>,
       << >> >>

KindOffset(kind) ==
    CASE kind = "cluster"      -> 0
      [] kind = "service"      -> 1
      [] kind = "log-group"    -> 2
      [] kind = "dashboard"    -> 3
      [] kind = "natgateway"   -> 1
      [] kind = "loadbalancer" -> 0

\* the tags attached to a resource
TagListOf(ref) ==
    TagProfiles[((KindOffset(ref[1]) + ref[2] + ref[3]) % Len(TagProfiles)) + 1]

(***************************************************************************)
(* AuditRow construction (lines 60-70, 82-92, 123-133, 153-163, 187-197,   *)
(* 216-226)                                                                *)
(***************************************************************************)

\* f"{x:.2%}": the percentage in hundredths of a percent, 7500 for "75.00%"
FormatPercent2(score) == (score.num * 10000) \div score.den

\* json.dumps(tags, separators=(',', ':')): the items in insertion order
RECURSIVE JsonItems(_)
JsonItems(d) ==
    IF d = <<>> THEN <<>>
    ELSE IF Len(d) = 1 THEN <<d[1][1], ":", d[1][2]>>
    ELSE <<d[1][1], ":", d[1][2], ",">> \o JsonItems(Tail(d))

JsonDumps(d) == <<"{">> \o JsonItems(d) \o <<"}">>

MakeRow(resource_type, ref, tags) ==
    LET compliance == check_compliance(tags)
    IN  [ResourceType    |-> resource_type,
         ResourceId      |-> ref,
         ResourceArn     |-> <<"arn", ref>>,
         Region          |-> Region,
         Compliant       |-> compliance.compliant,
         ComplianceScore |-> FormatPercent2(compliance.compliance_score),
         MissingTags     |-> join(compliance.missing_tags),
         ExistingTags    |-> JsonDumps(tags),
         TagCount        |-> Len(tags)]

(***************************************************************************)
(* The run of main(): one action per API call or report step.  An action   *)
(* covers the call and everything the code does with its outcome up to the *)
(* next call, the except clause that catches its failure included.         *)
(***************************************************************************)

Call(op, cat, ref) == [op |-> op, cat |-> cat, ref |-> ref]

LogRecord(level, msg, ref) == [level |-> level, msg |-> msg, ref |-> ref]

\* a call may raise as long as the run has not used up its failures
CanFail == Cardinality(failed) < MaxFailures

\* the thread moves on inside the running adapter, whose list is now r
Advance(r, p, i2, j2) ==
    /\ pc' = p /\ i' = i2 /\ j' = j2
    /\ results' = r
    /\ all_results' = all_results

\* variant of AfterAdapter: networking is audited before CloudWatch
AfterAdapter_reordered(adapter) ==
    CASE adapter = "ecs"        -> "ec2_client"
      [] adapter = "networking" -> "logs_client"
      [] adapter = "cloudwatch" -> "write_csv"

\* the order in which generate_report runs the adapters (lines 241-243, 246)
AfterAdapter(adapter) ==
    CASE adapter = "ecs"        -> "logs_client"
      [] adapter = "cloudwatch" -> "ec2_client"
      [] adapter = "networking" -> "write_csv"

\* variant of Return: the adapter's rows replace the rows collected so far
Return_assign(r, adapter) ==
    /\ pc' = AfterAdapter(adapter) /\ i' = 0 /\ j' = 0
    /\ results' = <<>>
    /\ all_results' = r

\* `return results` (lines 102, 170, 233) and all_results.extend (lines 241-243)
Return(r, adapter) ==
    /\ pc' = AfterAdapter(adapter) /\ i' = 0 /\ j' = 0
    /\ results' = <<>>
    /\ all_results' = all_results \o r

\* the call returns; newRows are the rows appended while handling its answer
Ok(call, newRows) ==
    /\ calls' = Append(calls, call)
    /\ collected' = collected \o newRows
    /\ UNCHANGED <<failed, log, account, csv, summary, exitCode>>

\* the call raises inside a try block: the except clause logs and the run goes on
Caught(call, msg, ref) ==
    /\ CanFail
    /\ calls' = Append(calls, call)
    /\ failed' = failed \cup {<<call.op, call.ref>>}
    /\ log' = Append(log, LogRecord("ERROR", msg, ref))
    /\ UNCHANGED <<collected, account, csv, summary, exitCode>>

\* variant of ExitFailure: main's handler returns 0
ExitFailure_zero == <<0>>

\* main's return values (lines 342, 344)
ExitFailure == <<1>>
ExitSuccess == <<0>>

\* the call raises outside every try block of the class: the exception unwinds
\* generate_report (its lists are gone) and main's handler returns 1
\* (lines 340-342)
Escaped(call) ==
    /\ CanFail
    /\ calls' = Append(calls, call)
    /\ failed' = failed \cup {<<call.op, call.ref>>}
    /\ log' = Append(log, LogRecord("ERROR", "Audit failed", NoRef))
    /\ pc' = "exit" /\ i' = 0 /\ j' = 0
    /\ results' = <<>> /\ all_results' = <<>>
    /\ exitCode' = ExitFailure
    /\ UNCHANGED <<collected, account, csv, summary>>

\* session.client(service, region_name=...) at the top of an adapter, or
\* boto3.Session() in __init__: not inside any try block
Construct(at, service, next) ==
    /\ pc = at
    /\ \/ /\ Ok(Call("client", "client", <<service, 0, 0>>), <<>>)
          /\ Advance(results, next, 0, 0)
       \/ Escaped(Call("client", "client", <<service, 0, 0>>))
    /\ UNCHANGED <<evalVars, sumVars>>

\* ---- main, TagAuditor.__init__ (lines 25-28, 338) ----
CreateSession == Construct("session", "session", "ecs_client")

\* ---- audit_ecs_resources (lines 43-102) ----
EcsClient == Construct("ecs_client", "ecs", "list_clusters")

\* the for loop over cluster_arns moves to the next cluster or the adapter returns
NextCluster(r) ==
    IF i < account.clusters THEN Advance(r, "cluster_tags", i + 1, 0)
    ELSE Return(r, "ecs")

ListClusters ==
    /\ pc = "list_clusters"
    /\ LET call == Call("list_clusters", "ECS::Cluster", NoRef)
       IN  \/ /\ Ok(call, <<>>)
              /\ IF account.clusters > 0 THEN Advance(results, "cluster_tags", 1, 0)
                 ELSE Return(results, "ecs")
           \/ /\ Caught(call, "Error listing ECS clusters", NoRef)
              /\ Return(results, "ecs")
    /\ UNCHANGED <<evalVars, sumVars>>

ClusterTags ==
    /\ pc = "cluster_tags"
    /\ LET ref  == ClusterRef(i)
           call == Call("list_tags_for_resource", "ECS::Cluster", ref)
           row  == MakeRow("ECS::Cluster", ref, DictFromTagList(TagListOf(ref)))
       IN  \/ /\ Ok(call, <<row>>)
              /\ Advance(Append(results, row), "list_services", i, 0)
           \/ /\ Caught(call, "Error auditing ECS cluster", ref)
              /\ NextCluster(results)
    /\ UNCHANGED <<evalVars, sumVars>>

ListServices ==
    /\ pc = "list_services"
    /\ LET ref  == ClusterRef(i)
           call == Call("list_services", "ECS::Service", ref)
       IN  \/ /\ Ok(call, <<>>)
              /\ IF account.services > 0 THEN Advance(results, "service_tags", i, 1)
                 ELSE NextCluster(results)
           \/ /\ Caught(call, "Error auditing ECS cluster", ref)
              /\ NextCluster(results)
    /\ UNCHANGED <<evalVars, sumVars>>

ServiceTags ==
    /\ pc = "service_tags"
    /\ LET ref  == ServiceRef(i, j)
           call == Call("list_tags_for_resource", "ECS::Service", ref)
           row  == MakeRow("ECS::Service", ref, DictFromTagList(TagListOf(ref)))
           next(r) == IF j < account.services THEN Advance(r, "service_tags", i, j + 1)
                      ELSE NextCluster(r)
       IN  \/ /\ Ok(call, <<row>>)
              /\ next(Append(results, row))
           \/ /\ Caught(call, "Error auditing ECS service", ref)
              /\ next(results)
    /\ UNCHANGED <<evalVars, sumVars>>

\* ---- audit_cloudwatch_resources (lines 104-170) ----
LogsClient       == Construct("logs_client", "logs", "cloudwatch_client")
CloudwatchClient == Construct("cloudwatch_client", "cloudwatch", "log_page")

\* the pages paginator.paginate() yields: at least one, possibly empty
NumPages == IF account.others = 0 THEN 1 ELSE (account.others + PageSize - 1) \div PageSize
FirstOnPage(p) == (p - 1) * PageSize + 1
LastOnPage(p)  == IF p * PageSize < account.others THEN p * PageSize ELSE account.others
PageOf(g)      == ((g - 1) \div PageSize) + 1

\* variant of LogGroupsDone: the rows of the log groups are dropped
LogGroupsDone_reset(r) == Advance(<<>>, "list_dashboards", 0, 0)

\* the log-group try block is left (normally or through its except clause,
\* lines 137-138); `results` is kept and the dashboards follow
LogGroupsDone(r) == Advance(r, "list_dashboards", 0, 0)

DescribeLogGroupsPage ==
    /\ pc = "log_page"
    /\ LET page == IF i = 0 THEN 1 ELSE i
           call == Call("describe_log_groups", "Logs::LogGroup", <<"page", page, 0>>)
       IN  \/ /\ Ok(call, <<>>)
              /\ IF FirstOnPage(page) <= LastOnPage(page)
                 THEN Advance(results, "log_tags", page, FirstOnPage(page))
                 ELSE LogGroupsDone(results)
           \/ /\ Caught(call, "Error listing CloudWatch log groups", NoRef)
              /\ LogGroupsDone(results)
    /\ UNCHANGED <<evalVars, sumVars>>

LogGroupTags ==
    /\ pc = "log_tags"
    /\ LET ref  == LogGroupRef(j)
           call == Call("list_tags_log_group", "Logs::LogGroup", ref)
           \* tags_response.get('tags', {}) is already a dict
           row  == MakeRow("Logs::LogGroup", ref, DictFromTagList(TagListOf(ref)))
           next(r) == IF j < LastOnPage(i) THEN Advance(r, "log_tags", i, j + 1)
                      ELSE IF i < NumPages THEN Advance(r, "log_page", i + 1, 0)
                      ELSE LogGroupsDone(r)
       IN  \/ /\ Ok(call, <<row>>)
              /\ next(Append(results, row))
           \/ /\ Caught(call, "Error auditing log group", ref)
              /\ next(results)
    /\ UNCHANGED <<evalVars, sumVars>>

ListDashboards ==
    /\ pc = "list_dashboards"
    /\ LET call == Call("list_dashboards", "CloudWatch::Dashboard", NoRef)
       IN  \/ /\ Ok(call, <<>>)
              /\ IF account.others > 0 THEN Advance(results, "dashboard_tags", 1, 0)
                 ELSE Return(results, "cloudwatch")
           \/ /\ Caught(call, "Error listing CloudWatch dashboards", NoRef)
              /\ Return(results, "cloudwatch")
    /\ UNCHANGED <<evalVars, sumVars>>

DashboardTags ==
    /\ pc = "dashboard_tags"
    /\ LET ref  == DashboardRef(i)
           call == Call("list_tags_for_resource", "CloudWatch::Dashboard", ref)
           row  == MakeRow("CloudWatch::Dashboard", ref, DictFromTagList(TagListOf(ref)))
           next(r) == IF i < account.others THEN Advance(r, "dashboard_tags", i + 1, 0)
                      ELSE Return(r, "cloudwatch")
       IN  \/ /\ Ok(call, <<row>>)
              /\ next(Append(results, row))
           \/ /\ Caught(call, "Error auditing dashboard", ref)
              /\ next(results)
    /\ UNCHANGED <<evalVars, sumVars>>

\* ---- audit_networking_resources (lines 172-233) ----
Ec2Client   == Construct("ec2_client", "ec2", "elbv2_client")
Elbv2Client == Construct("elbv2_client", "elbv2", "describe_nat_gateways")

\* the rows of the NAT gateways 1..n; their tags come with the listing
RECURSIVE NatGatewayRows(_)
NatGatewayRows(n) ==
    IF n = 0 THEN <<>>
    ELSE Append(NatGatewayRows(n - 1),
                MakeRow("EC2::NatGateway", NatGatewayRef(n),
                        DictFromTagList(TagListOf(NatGatewayRef(n)))))

DescribeNatGateways ==
    /\ pc = "describe_nat_gateways"
    /\ LET call == Call("describe_nat_gateways", "EC2::NatGateway", NoRef)
           rows == NatGatewayRows(account.others)
       IN  \/ /\ Ok(call, rows)
              /\ Advance(results \o rows, "describe_load_balancers", 0, 0)
           \/ /\ Caught(call, "Error auditing NAT Gateways", NoRef)
              /\ Advance(results, "describe_load_balancers", 0, 0)
    /\ UNCHANGED <<evalVars, sumVars>>

DescribeLoadBalancers ==
    /\ pc = "describe_load_balancers"
    /\ LET call == Call("describe_load_balancers",
                        "ElasticLoadBalancingV2::LoadBalancer", NoRef)
       IN  \/ /\ Ok(call, <<>>)
              /\ IF account.others > 0 THEN Advance(results, "load_balancer_tags", 1, 0)
                 ELSE Return(results, "networking")
           \/ /\ Caught(call, "Error auditing Load Balancers", NoRef)
              /\ Return(results, "networking")
    /\ UNCHANGED <<evalVars, sumVars>>

LoadBalancerTags ==
    /\ pc = "load_balancer_tags"
    /\ LET ref  == LoadBalancerRef(i)
           call == Call("describe_tags", "ElasticLoadBalancingV2::LoadBalancer", ref)
           \* one TagDescription per requested ARN: tags.update(...) of its Tags
           row  == MakeRow("ElasticLoadBalancingV2::LoadBalancer", ref,
                           DictFromTagList(TagListOf(ref)))
           next(r) == IF i < account.others THEN Advance(r, "load_balancer_tags", i + 1, 0)
                      ELSE Return(r, "networking")
       IN  \/ /\ Ok(call, <<row>>)
              /\ next(Append(results, row))
           \/ /\ Caught(call, "Error auditing load balancer", ref)
              /\ next(results)
    /\ UNCHANGED <<evalVars, sumVars>>

(***************************************************************************)
(* print_summary (lines 261-324)                                           *)
(***************************************************************************)

\* the code points of a resource type label (Python compares str by code point)
CodePoints(label) ==
    CASE label = "ECS::Cluster" ->
           <<69, 67, 83, 58, 58, 67, 108, 117, 115, 116, 101, 114>>
      [] label = "ECS::Service" ->
           <<69, 67, 83, 58, 58, 83, 101, 114, 118, 105, 99, 101>>
      [] label = "Logs::LogGroup" ->
           <<76, 111, 103, 115, 58, 58, 76, 111, 103, 71, 114, 111, 117, 112>>
      [] label = "CloudWatch::Dashboard" ->
           <<67, 108, 111, 117, 100, 87, 97, 116, 99, 104, 58, 58, 68, 97, 115,
             104, 98, 111, 97, 114, 100>>
      [] label = "EC2::NatGateway" ->
           <<69, 67, 50, 58, 58, 78, 97, 116, 71, 97, 116, 101, 119, 97, 121>>
      [] label = "ElasticLoadBalancingV2::LoadBalancer" ->
           <<69, 108, 97, 115, 116, 105, 99, 76, 111, 97, 100, 66, 97, 108, 97,
             110, 99, 105, 110, 103, 86, 50, 58, 58, 76, 111, 97, 100, 66, 97,
             108, 97, 110, 99, 101, 114>>

\* a < b for two sequences of code points
RECURSIVE SeqLess(_, _)
SeqLess(a, b) ==
    IF b = <<>> THEN FALSE
    ELSE IF a = <<>> THEN TRUE
    ELSE IF Head(a) # Head(b) THEN Head(a) < Head(b)
    ELSE SeqLess(Tail(a), Tail(b))

StrLess(a, b) == SeqLess(CodePoints(a), CodePoints(b))

\* the dict resource_types after the loop of lines 273-279
RECURSIVE ResourceTypeStats(_)
ResourceTypeStats(rows) ==
    IF rows = <<>> THEN <<>>
    ELSE LET before == ResourceTypeStats(SubSeq(rows, 1, Len(rows) - 1))
             result == rows[Len(rows)]
             stats  == DictGetOr(before, result.ResourceType,
                                 [total |-> 0, compliant |-> 0])
         IN  DictSet(before, result.ResourceType,
                     [total     |-> stats.total + 1,
                      compliant |-> stats.compliant + IF result.Compliant THEN 1 ELSE 0])

\* the inner loop of lines 285-286 over the pieces of one MissingTags column
RECURSIVE CountPieces(_, _)
CountPieces(counts, pieces) ==
    IF pieces = <<>> THEN counts
    ELSE CountPieces(DictSet(counts, Head(pieces), DictGetOr(counts, Head(pieces), 0) + 1),
                     Tail(pieces))

\* variant of TallyRow: the emptiness test of line 284 is left out
TallyRow_unguarded(counts, result) == CountPieces(counts, split(result.MissingTags))

\* lines 284-286 for one row
TallyRow(counts, result) ==
    IF result.MissingTags # <<>>
    THEN CountPieces(counts, split(result.MissingTags))
    ELSE counts

\* the dict missing_tags_count after the loop of lines 283-286
RECURSIVE MissingTagsCount(_)
MissingTagsCount(rows) ==
    IF rows = <<>> THEN <<>>
    ELSE TallyRow(MissingTagsCount(SubSeq(rows, 1, Len(rows) - 1)), rows[Len(rows)])

\* sorted(items): ascending by key; keys are distinct, so values are never compared
RECURSIVE SortedByKey(_)
SortedByKey(items) ==
    IF items = <<>> THEN <<>>
    ELSE LET before == SortedByKey(SubSeq(items, 1, Len(items) - 1))
             x      == items[Len(items)]
             ahead  == Cardinality({n \in 1..Len(before) : ~StrLess(x[1], before[n][1])})
         IN  SubSeq(before, 1, ahead) \o <<x>> \o SubSeq(before, ahead + 1, Len(before))

\* sorted(items, key=lambda x: x[1], reverse=True): descending by count, items of
\* equal count staying in their original order (the sort is stable)
RECURSIVE SortedByCountDesc(_)
SortedByCountDesc(items) ==
    IF items = <<>> THEN <<>>
    ELSE LET before == SortedByCountDesc(SubSeq(items, 1, Len(items) - 1))
             x      == items[Len(items)]
             ahead  == Cardinality({n \in 1..Len(before) : before[n][2] >= x[2]})
         IN  SubSeq(before, 1, ahead) \o <<x>> \o SubSeq(before, ahead + 1, Len(before))

\* f"{x:.1f}" of the fraction x: tenths, rounded to nearest (a tie goes to the
\* even tenth; with at most 15 rows no tie arises)
FormatTenths(x) ==
    LET q == (x.num * 10) \div x.den
        r == (x.num * 10) % x.den
    IN  IF 2 * r > x.den THEN q + 1
        ELSE IF 2 * r = x.den THEN q + (q % 2)
        ELSE q

\* number of rows with Compliant true (line 268)
RECURSIVE CountCompliant(_)
CountCompliant(rows) ==
    IF rows = <<>> THEN 0
    ELSE (IF Head(rows).Compliant THEN 1 ELSE 0) + CountCompliant(Tail(rows))

\* what lines 267-324 print for a non-empty list of rows
Statistics(rows) ==
    LET total_resources     == Len(rows)
        compliant_resources == CountCompliant(rows)
        compliance_rate     == IF total_resources > 0
                               THEN [num |-> compliant_resources * 100,
                                     den |-> total_resources]
                               ELSE [num |-> 0, den |-> 1]
        by_type == SortedByKey(ResourceTypeStats(rows))
    IN  [total_resources         |-> total_resources,
         compliant_resources     |-> compliant_resources,
         non_compliant_resources |-> total_resources - compliant_resources,
         compliance_rate         |-> FormatTenths(compliance_rate),
         by_type |-> [n \in 1..Len(by_type) |->
                        [resource_type |-> by_type[n][1],
                         total         |-> by_type[n][2].total,
                         compliant     |-> by_type[n][2].compliant,
                         compliance_pct |-> FormatTenths(
                             [num |-> by_type[n][2].compliant * 100,
                              den |-> by_type[n][2].total])]],
         missing_tags    |-> SortedByCountDesc(MissingTagsCount(rows)),
         recommendations |-> compliance_rate.num < 95 * compliance_rate.den]

\* variant of print_summary: no early return for an empty list
print_summary_always(rows) ==
    [warning |-> FALSE, printed |-> <<Statistics(rows)>>]

\* print_summary: the warning of line 264, or the printed statistics
print_summary(rows) ==
    IF rows = <<>>
    THEN [warning |-> TRUE,  printed |-> <<>>]
    ELSE [warning |-> FALSE, printed |-> <<Statistics(rows)>>]

(***************************************************************************)
(* generate_report's tail (lines 245-259) and main's return                *)
(***************************************************************************)

fieldnames == <<"ResourceType", "ResourceId", "ResourceArn", "Region",
                "Compliant", "ComplianceScore", "MissingTags", "TagCount",
                "ExistingTags">>

\* writer.writerow(result): the row's values in the order of fieldnames
CsvLine(result) == [n \in 1..Len(fieldnames) |-> result[fieldnames[n]]]

CsvFile(rows) == [header |-> fieldnames,
                  lines  |-> [n \in 1..Len(rows) |-> CsvLine(rows[n])]]

\* lines 246-256: the file is opened and written only for a non-empty list;
\* open() is not inside a try block of the class
WriteCsv ==
    /\ pc = "write_csv"
    /\ \/ /\ all_results # <<>>
          /\ csv' = <<CsvFile(all_results)>>
          /\ calls' = Append(calls, Call("write_csv", "report", NoRef))
          /\ Advance(results, "print_summary", 0, 0)
          /\ UNCHANGED <<failed, log, collected, account, summary, exitCode>>
       \/ /\ all_results # <<>>
          /\ Escaped(Call("write_csv", "report", NoRef))
       \/ /\ all_results = <<>>
          /\ calls' = Append(calls, Call("skip_csv", "report", NoRef))
          /\ Advance(results, "print_summary", 0, 0)
          /\ UNCHANGED <<failed, log, collected, account, csv, summary, exitCode>>
    /\ UNCHANGED <<evalVars, sumVars>>

\* line 259, then generate_report returns and main returns 0 (line 344)
PrintSummary ==
    /\ pc = "print_summary"
    /\ LET out == print_summary(all_results)
       IN  /\ summary' = out.printed
           /\ log' = IF out.warning
                     THEN Append(log, LogRecord("WARNING", "No resources found to audit", NoRef))
                     ELSE log
    /\ calls' = Append(calls, Call("print_summary", "report", NoRef))
    /\ pc' = "exit" /\ i' = 0 /\ j' = 0
    /\ results' = <<>> /\ all_results' = <<>>
    /\ exitCode' = ExitSuccess
    /\ UNCHANGED <<failed, collected, account, csv>>
    /\ UNCHANGED <<evalVars, sumVars>>

(***************************************************************************)
(* Specifications                                                          *)
(***************************************************************************)

\* values the variables of an idle part of the model keep
IdleRun ==
    /\ account = [clusters |-> 0, services |-> 0, others |-> 0]
    /\ pc = "idle" /\ i = 0 /\ j = 0
    /\ results = <<>> /\ all_results = <<>>
    /\ log = <<>> /\ csv = <<>> /\ summary = <<>> /\ exitCode = <<>>
    /\ calls = <<>> /\ collected = <<>> /\ failed = {}
IdleEval == in_tags = <<>> /\ out_compliance = <<>>
IdleSum  == in_results = <<>> /\ out_summary = <<>>

\* ---- Spec: one run of main() against an account ----
Init ==
    /\ account \in Accounts
    /\ pc = "session" /\ i = 0 /\ j = 0
    /\ results = <<>> /\ all_results = <<>>
    /\ log = <<>> /\ csv = <<>> /\ summary = <<>> /\ exitCode = <<>>
    /\ calls = <<>> /\ collected = <<>> /\ failed = {}
    /\ IdleEval /\ IdleSum

Next ==
    \/ CreateSession
    \/ EcsClient \/ ListClusters \/ ClusterTags \/ ListServices \/ ServiceTags
    \/ LogsClient \/ CloudwatchClient \/ DescribeLogGroupsPage \/ LogGroupTags
    \/ ListDashboards \/ DashboardTags
    \/ Ec2Client \/ Elbv2Client \/ DescribeNatGateways
    \/ DescribeLoadBalancers \/ LoadBalancerTags
    \/ WriteCsv \/ PrintSummary

Spec == Init /\ [][Next]_vars

\* ---- SpecEval: check_compliance applied to every tag map of a bounded set ----

\* most items of a tag map
MaxTags == 4

TagKeys == {"Environment", "Owner", "CostCenter", "Application", "Team"}

\* tag values: empty, whitespace only, plain, padded
TagValues == { <<>>, <<" ", "\t">>, <<"x">>, <<"\n", "x", " ">> }

InitEval ==
    /\ in_tags = <<>>
    /\ out_compliance = <<>>
    /\ IdleRun /\ IdleSum

\* the caller builds the tag map item by item, in any key order
AddTag ==
    /\ out_compliance = <<>>
    /\ Len(in_tags) < MaxTags
    /\ \E k \in TagKeys, v \in TagValues :
          /\ ~DictHas(in_tags, k)
          /\ in_tags' = DictSet(in_tags, k, v)
    /\ UNCHANGED <<out_compliance, runVars, sumVars>>

Evaluate ==
    /\ out_compliance = <<>>
    /\ out_compliance' = <<check_compliance(in_tags)>>
    /\ UNCHANGED <<in_tags, runVars, sumVars>>

NextEval == AddTag \/ Evaluate

SpecEval == InitEval /\ [][NextEval]_vars

\* ---- SpecSummary: print_summary applied to every row list of a bounded set ----

\* most rows of a list
MaxRows == 3

SampleTypes == {"ECS::Service", "EC2::NatGateway", "CloudWatch::Dashboard",
                "ElasticLoadBalancingV2::LoadBalancer"}

\* the tag profiles the sampled rows carry
SampleProfiles == {p \in 1..Len(TagProfiles) : TagProfiles[p] # <<>>}

InitSummary ==
    /\ in_results = <<>>
    /\ out_summary = <<>>
    /\ IdleRun /\ IdleEval

\* an adapter appends a row, built as the adapters build theirs
AddRow ==
    /\ out_summary = <<>>
    /\ Len(in_results) < MaxRows
    /\ \E t \in SampleTypes, p \in SampleProfiles :
          in_results' = Append(in_results,
                               MakeRow(t, NoRef, DictFromTagList(TagProfiles[p])))
    /\ UNCHANGED <<out_summary, runVars, evalVars>>

Summarise ==
    /\ out_summary = <<>>
    /\ out_summary' = <<print_summary(in_results)>>
    /\ UNCHANGED <<in_results, runVars, evalVars>>

NextSummary == AddRow \/ Summarise

SpecSummary == InitSummary /\ [][NextSummary]_vars

(***************************************************************************)
(* Properties of check_compliance (checked under SpecEval)                 *)
(***************************************************************************)

\* a value made of whitespace only (the empty value included)
Blank(v) == \A n \in 1..Len(v) : v[n] \in Whitespace

\* the required tag is absent from tags or carries a blank value
Unsatisfied(tags, t) == \A n \in 1..Len(tags) : tags[n][1] = t => Blank(tags[n][2])

ExpectedMissing(tags) == SelectSeq(required_tags, LAMBDA t : Unsatisfied(tags, t))

Evaluated == out_compliance # <<>>

\* C1: for every tag map, the empty one included, missing_tags is exactly the
\* required tags that are absent or blank after trimming, in the order of the
\* required list whatever the key order of the map; a whitespace-only value
\* counts like an absent tag.
C1_MissingTagsExact ==
    Evaluated =>
        /\ out_compliance[1].missing_tags = ExpectedMissing(in_tags)
        /\ \A n \in 1..Len(in_tags) :
              Blank(in_tags[n][2]) =>
                 out_compliance[1].missing_tags =
                    check_compliance(SubSeq(in_tags, 1, n - 1)
                                     \o SubSeq(in_tags, n + 1, Len(in_tags))).missing_tags

\* a map whose keys come in another order than the required list, with a
\* whitespace-only Owner and no CostCenter
C1_Witness ==
    /\ Evaluated
    /\ Len(in_tags) = 3
    /\ in_tags[1][1] = "Application" /\ ~Blank(in_tags[1][2])
    /\ in_tags[2] = <<"Owner", <<" ", "\t">> >>
    /\ in_tags[3][1] = "Environment" /\ in_tags[3][2] = <<"\n", "x", " ">>
    /\ out_compliance[1].missing_tags = <<"Owner", "CostCenter">>

Range(f) == {f[n] : n \in 1..Len(f)}

\* C2: compliant iff missing_tags is empty; compliance_score is
\* (4 - len(missing_tags)) / 4, hence one of 0, 1/4, 2/4, 3/4, 1; it is 1 with
\* nothing missing and 0 with all four missing; and it does not increase when
\* the set of missing tags grows (here: when any one item is taken away).
C2_ScoreAndCompliant ==
    Evaluated =>
        LET r == out_compliance[1]
            k == Len(r.missing_tags)
        IN  /\ r.compliant <=> (r.missing_tags = <<>>)
            /\ r.compliance_score.den = 4
            /\ r.compliance_score.num = 4 - k
            /\ r.compliance_score.num \in 0..4
            /\ (k = 0) <=> (r.compliance_score.num = r.compliance_score.den)
            /\ (k = 4) <=> (r.compliance_score.num = 0)
            /\ \A n \in 1..Len(in_tags) :
                  LET r2 == check_compliance(SubSeq(in_tags, 1, n - 1)
                                             \o SubSeq(in_tags, n + 1, Len(in_tags)))
                  IN  /\ Range(r.missing_tags) \subseteq Range(r2.missing_tags)
                      /\ r2.compliance_score.num * r.compliance_score.den
                            <= r.compliance_score.num * r2.compliance_score.den

\* a four-item map with exactly two required tags missing: score 2/4
C2_Witness ==
    /\ Evaluated
    /\ Len(in_tags) = 4
    /\ ~out_compliance[1].compliant
    /\ Len(out_compliance[1].missing_tags) = 2
    /\ out_compliance[1].compliance_score = [num |-> 2, den |-> 4]

(***************************************************************************)
(* Properties of print_summary (checked under SpecSummary)                 *)
(***************************************************************************)

\* the resource type labels in lexicographic order
LexOrder == <<"CloudWatch::Dashboard", "EC2::NatGateway", "ECS::Cluster",
              "ECS::Service", "ElasticLoadBalancingV2::LoadBalancer",
              "Logs::LogGroup">>

LexRank(label) == CHOOSE n \in 1..Len(LexOrder) : LexOrder[n] = label

\* the rows of the list that satisfy P
RowsWhere(rows, P(_)) == {n \in 1..Len(rows) : P(rows[n])}

\* the row's missing_tags contains the tag
Misses(row, tag) == \E k \in 1..Len(row.MissingTags) : row.MissingTags[k] = tag

Summarised == out_summary # <<>> /\ out_summary[1].printed # <<>>

\* C8: total is the number of rows; the compliant count is the number of rows
\* with Compliant true; the rate is compliant/total as a percentage (printed to
\* a tenth); the per-type totals and compliant counts add up to the overall
\* ones and come in lexicographic order of the label; every required tag some
\* row misses is tallied with the number of rows missing it, nothing else is
\* tallied, and the tally is in non-increasing order of count.
C8_SummaryStatistics ==
    Summarised =>
        LET st    == out_summary[1].printed[1]
            rows  == in_results
            total == Len(rows)
            good  == Cardinality(RowsWhere(rows, LAMBDA r : r.Compliant))
            types == {rows[n].ResourceType : n \in 1..Len(rows)}
        IN  /\ st.total_resources = total
            /\ st.compliant_resources = good
            /\ st.non_compliant_resources = total - good
            \* the printed rate, in tenths of a percent, is the nearest one
            /\ 2 * (st.compliance_rate * total - good * 1000) \in (0 - total)..total
            /\ {st.by_type[n].resource_type : n \in 1..Len(st.by_type)} = types
            /\ Len(st.by_type) = Cardinality(types)
            /\ \A n \in 1..Len(st.by_type) :
                  LET e == st.by_type[n]
                  IN  /\ e.total = Cardinality(RowsWhere(rows,
                                      LAMBDA r : r.ResourceType = e.resource_type))
                      /\ e.compliant = Cardinality(RowsWhere(rows,
                                      LAMBDA r : r.ResourceType = e.resource_type
                                                 /\ r.Compliant))
                      /\ n > 1 => LexRank(st.by_type[n - 1].resource_type)
                                     < LexRank(e.resource_type)
            /\ \A t \in Range(required_tags) :
                  LET count == Cardinality(RowsWhere(rows, LAMBDA r : Misses(r, t)))
                  IN  IF count = 0
                      THEN \A n \in 1..Len(st.missing_tags) : st.missing_tags[n][1] # <<t>>
                      ELSE Cardinality({n \in 1..Len(st.missing_tags) :
                                          st.missing_tags[n] = << <<t>>, count >>}) = 1
            /\ \A n \in 1..Len(st.missing_tags) :
                  /\ \E t \in Range(required_tags) : st.missing_tags[n][1] = <<t>>
                  /\ n > 1 => st.missing_tags[n - 1][2] >= st.missing_tags[n][2]

\* the scenario of the specification: one compliant row and one row missing
\* only Owner give 50.0% and the tally {Owner: 1}
C8_Witness ==
    /\ Summarised
    /\ Len(in_results) = 2
    /\ in_results[1].Compliant
    /\ in_results[2].MissingTags = <<"Owner">>
    /\ out_summary[1].printed[1].compliance_rate = 500
    /\ out_summary[1].printed[1].missing_tags = << << <<"Owner">>, 1 >> >>

(***************************************************************************)
(* Properties of a run of main() (checked under Spec)                      *)
(***************************************************************************)

\* the resources of the account in the order the adapters visit them
ClusterBlock(c) == <<ClusterRef(c)>> \o [s \in 1..account.services |-> ServiceRef(c, s)]

RECURSIVE EcsOrder(_)
EcsOrder(c) == IF c = 0 THEN <<>> ELSE EcsOrder(c - 1) \o ClusterBlock(c)

AuditOrder ==
    EcsOrder(account.clusters)
    \o [g \in 1..account.others |-> LogGroupRef(g)]
    \o [d \in 1..account.others |-> DashboardRef(d)]
    \o [g \in 1..account.others |-> NatGatewayRef(g)]
    \o [b \in 1..account.others |-> LoadBalancerRef(b)]

Resources == Range(AuditOrder)

TypeOf(ref) ==
    CASE ref[1] = "cluster"      -> "ECS::Cluster"
      [] ref[1] = "service"      -> "ECS::Service"
      [] ref[1] = "log-group"    -> "Logs::LogGroup"
      [] ref[1] = "dashboard"    -> "CloudWatch::Dashboard"
      [] ref[1] = "natgateway"   -> "EC2::NatGateway"
      [] ref[1] = "loadbalancer" -> "ElasticLoadBalancingV2::LoadBalancer"

\* the six audited categories in the order of the specification
Categories == <<"ECS::Cluster", "ECS::Service", "Logs::LogGroup",
                "CloudWatch::Dashboard", "EC2::NatGateway",
                "ElasticLoadBalancingV2::LoadBalancer">>

CategoryRank(cat) ==
    CASE cat = "ECS::Cluster"          -> 1
      [] cat = "ECS::Service"          -> 2
      [] cat = "Logs::LogGroup"        -> 3
      [] cat = "CloudWatch::Dashboard" -> 4
      [] cat = "EC2::NatGateway"       -> 5
      [] cat = "ElasticLoadBalancingV2::LoadBalancer" -> 6

Raised(op, ref) == <<op, ref>> \in failed

\* the resource's own tag lookup raised (NAT gateways have none)
LookupFailed(ref) ==
    CASE ref[1] \in {"cluster", "service", "dashboard"} -> Raised("list_tags_for_resource", ref)
      [] ref[1] = "log-group"    -> Raised("list_tags_log_group", ref)
      [] ref[1] = "loadbalancer" -> Raised("describe_tags", ref)
      [] ref[1] = "natgateway"   -> FALSE

\* the listing call that returns the resource raised
OwnListingFailed(ref) ==
    CASE ref[1] = "cluster"      -> Raised("list_clusters", NoRef)
      [] ref[1] = "service"      -> Raised("list_services", ClusterRef(ref[2]))
      [] ref[1] = "log-group"    -> Raised("describe_log_groups", <<"page", PageOf(ref[2]), 0>>)
      [] ref[1] = "dashboard"    -> Raised("list_dashboards", NoRef)
      [] ref[1] = "natgateway"   -> Raised("describe_nat_gateways", NoRef)
      [] ref[1] = "loadbalancer" -> Raised("describe_load_balancers", NoRef)

\* the listing call of the category raised (for log groups: some page)
CategoryListingFailed(cat) ==
    CASE cat = "ECS::Cluster"          -> Raised("list_clusters", NoRef)
      [] cat = "ECS::Service"          -> FALSE
      [] cat = "Logs::LogGroup"        ->
            \E p \in 1..NumPages : Raised("describe_log_groups", <<"page", p, 0>>)
      [] cat = "CloudWatch::Dashboard" -> Raised("list_dashboards", NoRef)
      [] cat = "EC2::NatGateway"       -> Raised("describe_nat_gateways", NoRef)
      [] cat = "ElasticLoadBalancingV2::LoadBalancer" ->
            Raised("describe_load_balancers", NoRef)

ListingErrorMessage(cat) ==
    CASE cat = "ECS::Cluster"          -> "Error listing ECS clusters"
      [] cat = "Logs::LogGroup"        -> "Error listing CloudWatch log groups"
      [] cat = "CloudWatch::Dashboard" -> "Error listing CloudWatch dashboards"
      [] cat = "EC2::NatGateway"       -> "Error auditing NAT Gateways"
      [] cat = "ElasticLoadBalancingV2::LoadBalancer" -> "Error auditing Load Balancers"

Logged(level, msg, ref) == \E n \in 1..Len(log) : log[n] = LogRecord(level, msg, ref)

\* an error left the class's try blocks and reached main's handler
SomeErrorEscaped == \E f \in failed : f[1] \in {"client", "write_csv"}

Exited    == pc = "exit"
Completed == pc = "exit" /\ exitCode = ExitSuccess

\* the lines of the report file; none when no file was written
ReportLines == IF csv = <<>> THEN <<>> ELSE csv[1].lines

\* how many lines of the report are about the resource
RowCount(ref) ==
    Cardinality({n \in 1..Len(ReportLines) :
                   ReportLines[n][1] = TypeOf(ref) /\ ReportLines[n][2] = ref})

\* C3: when the tag lookup of one resource fails, the failure is logged, exactly
\* that resource has no row, and every other resource whose listing and own
\* lookup did not fail has its row.
C3_OnlyTheFailedResourceIsSkipped ==
    Completed =>
        \A r \in Resources :
            /\ LookupFailed(r) =>
                  /\ RowCount(r) = 0
                  /\ \E n \in 1..Len(log) : log[n].level = "ERROR" /\ log[n].ref = r
            /\ ( /\ ~LookupFailed(r)
                 /\ ~OwnListingFailed(r)
                 /\ ~(r[1] = "service" /\ Raised("list_clusters", NoRef))
                 /\ ~(r[1] = "log-group" /\ CategoryListingFailed("Logs::LogGroup")) )
               => RowCount(r) = 1

\* the resource was reached by the enumeration and every call made for it returned
Audited(r) ==
    /\ ~LookupFailed(r)
    /\ CASE r[1] = "service" ->
              /\ ~Raised("list_clusters", NoRef)
              /\ ~LookupFailed(ClusterRef(r[2]))
              /\ ~Raised("list_services", ClusterRef(r[2]))
         [] r[1] = "log-group" ->
              \A p \in 1..PageOf(r[2]) : ~Raised("describe_log_groups", <<"page", p, 0>>)
         [] OTHER -> ~OwnListingFailed(r)

\* C4 as stated: when the listing call of a category fails, the failure is
\* logged, the category has no row in the report, and every resource of the
\* other categories whose own calls did not fail has its row.
C4_FailedListingYieldsNoRows ==
    Completed =>
        \A n \in 1..Len(Categories) :
            LET cat == Categories[n]
            IN  CategoryListingFailed(cat) =>
                  /\ Logged("ERROR", ListingErrorMessage(cat), NoRef)
                  /\ \A r \in Resources : TypeOf(r) = cat => RowCount(r) = 0
                  /\ \A r \in Resources :
                        ( /\ TypeOf(r) # cat
                          /\ ~OwnListingFailed(r)
                          /\ ~LookupFailed(r)
                          /\ r[1] = "service" => ~LookupFailed(ClusterRef(r[2])) )
                        => RowCount(r) = 1

\* C4 as amended: when the listing call of a category fails, the failure is
\* logged and is caught (it never reaches main's handler); the category keeps
\* the rows of the pages fetched before the failing call and gets no further
\* row (none at all for the unpaginated listings); a failed list_clusters also
\* leaves the ECS services without rows; every other category is enumerated and
\* has the row of each resource it audited.
C4_FailedListingKeepsEarlierPages ==
    Exited =>
        \A n \in 1..Len(Categories) :
            LET cat == Categories[n]
            IN  CategoryListingFailed(cat) =>
                  /\ Logged("ERROR", ListingErrorMessage(cat), NoRef)
                  /\ ~SomeErrorEscaped =>
                        /\ Completed
                        /\ \A r \in Resources :
                              TypeOf(r) = cat =>
                                 RowCount(r) =
                                    IF /\ cat = "Logs::LogGroup"
                                       /\ \A p \in 1..PageOf(r[2]) :
                                             ~Raised("describe_log_groups", <<"page", p, 0>>)
                                       /\ ~LookupFailed(r)
                                    THEN 1 ELSE 0
                        /\ cat = "ECS::Cluster" =>
                              \A r \in Resources : r[1] = "service" => RowCount(r) = 0
                        /\ \A r \in Resources :
                              TypeOf(r) # cat =>
                                 RowCount(r) = IF Audited(r) THEN 1 ELSE 0
                        /\ \A m \in 1..Len(Categories) :
                              (m > 2 /\ m # n) =>
                                 \E k \in 1..Len(calls) : calls[k].cat = Categories[m]

\* the second page of describe_log_groups raised after the first page's log
\* group got its row, and the later categories were audited
C4_Witness ==
    /\ Completed
    /\ Raised("describe_log_groups", <<"page", 2, 0>>)
    /\ RowCount(LogGroupRef(1)) = 1
    /\ RowCount(LoadBalancerRef(1)) = 1
    /\ account.clusters > 0

\* C5: whatever failure occurs later, every row collected before it is in the
\* final CSV.
C5_CollectedRowsReachTheCsv ==
    Exited =>
        (collected # <<>> =>
            /\ csv # <<>>
            /\ csv[1].lines = [n \in 1..Len(collected) |-> CsvLine(collected[n])])

\* the call was made for a resource category (not a client, not a report step)
IsCategoryCall(c) == c.cat \in Range(Categories)

\* C6 as stated: the six categories are audited strictly one after another:
\* no call and no row of a category comes after a call or row of a later one.
\* (Every prefix of the calls and rows of a run is the calls and rows of an
\* earlier state of it, so the latest call and row are compared with all
\* earlier ones.)
C6_CategoriesNeverInterleave ==
    /\ \A a \in 1..(Len(calls) - 1) :
          (IsCategoryCall(calls[a]) /\ IsCategoryCall(calls[Len(calls)])) =>
             CategoryRank(calls[a].cat) <= CategoryRank(calls[Len(calls)].cat)
    /\ \A a \in 1..(Len(collected) - 1) :
          CategoryRank(collected[a].ResourceType)
             <= CategoryRank(collected[Len(collected)].ResourceType)

\* ECS clusters and services form one family; the other categories one each
FamilyRank(cat) == IF cat = "ECS::Service" THEN 1 ELSE CategoryRank(cat)

\* position of an ECS call in the handling of its cluster
StepInCluster(c) ==
    CASE c.op = "list_clusters" -> 0
      [] c.op = "list_tags_for_resource" /\ c.cat = "ECS::Cluster" -> 1
      [] c.op = "list_services" -> 2
      [] OTHER -> 3

\* C6 as amended: ECS (clusters and services together), log groups, dashboards,
\* NAT gateways and load balancers are audited strictly one after another, in
\* that order, for calls and for rows; inside ECS the clusters are handled one
\* after another, each cluster's tag lookup, then its list_services, then the
\* lookups of its services, so that cluster and service calls alternate.
C6_FamiliesNeverInterleave ==
    /\ \A a \in 1..(Len(calls) - 1) :
          LET x == calls[a]
              y == calls[Len(calls)]
          IN  (IsCategoryCall(x) /\ IsCategoryCall(y)) =>
                /\ FamilyRank(x.cat) <= FamilyRank(y.cat)
                /\ (FamilyRank(x.cat) = 1 /\ FamilyRank(y.cat) = 1) =>
                      /\ x.ref[2] <= y.ref[2]
                      /\ x.ref[2] = y.ref[2] => StepInCluster(x) <= StepInCluster(y)
    /\ \A a \in 1..(Len(collected) - 1) :
          FamilyRank(collected[a].ResourceType)
             <= FamilyRank(collected[Len(collected)].ResourceType)

\* a finished run in which a service row precedes a cluster row and every
\* category was called
C6_Witness ==
    /\ Completed
    /\ \E a, b \in 1..Len(collected) :
          /\ a < b
          /\ collected[a].ResourceType = "ECS::Service"
          /\ collected[b].ResourceType = "ECS::Cluster"
    /\ \A n \in 1..Len(Categories) :
          \E k \in 1..Len(calls) : calls[k].cat = Categories[n]

\* the report step and the summary step, by their position in the run
ReportStepAt(k)  == calls[k].op \in {"write_csv", "skip_csv"} /\ ~Raised("write_csv", NoRef)
SummaryStepAt(k) == calls[k].op = "print_summary"

\* C7 as stated: whenever generate_report completes, the console summary has
\* been printed, whether or not the file was written.
C7_SummaryAlwaysPrinted == Completed => summary # <<>>

\* C7 as amended: whenever generate_report completes, print_summary ran right
\* after the report step; it printed the summary exactly when the CSV file was
\* written (at least one row), and with no row it printed nothing and logged the
\* warning "No resources found to audit".
C7_SummaryPrintedIffFileWritten ==
    Completed =>
        /\ Len(calls) >= 2
        /\ ReportStepAt(Len(calls) - 1) /\ SummaryStepAt(Len(calls))
        /\ (summary # <<>>) <=> (csv # <<>>)
        /\ (summary # <<>>) <=> (collected # <<>>)
        /\ summary # <<>> => summary[1].total_resources = Len(collected)
        /\ (summary = <<>>) <=>
              Logged("WARNING", "No resources found to audit", NoRef)

\* a completed run over an account whose only resources are ECS clusters, all
\* lost to a failed list_clusters: no file, no summary, the warning
C7_Witness ==
    /\ Completed
    /\ account.clusters > 0 /\ Raised("list_clusters", NoRef)
    /\ csv = <<>> /\ summary = <<>>
    /\ Logged("WARNING", "No resources found to audit", NoRef)

RECURSIVE IsSubsequence(_, _)
IsSubsequence(a, b) ==
    IF a = <<>> THEN TRUE
    ELSE IF b = <<>> THEN FALSE
    ELSE IF Head(a) = Head(b) THEN IsSubsequence(Tail(a), Tail(b))
    ELSE IsSubsequence(a, Tail(b))

\* the call made for the resource alone returned
LookupReturned(r) ==
    IF r[1] = "natgateway"
    THEN /\ \E k \in 1..Len(calls) : calls[k].op = "describe_nat_gateways"
         /\ ~Raised("describe_nat_gateways", NoRef)
    ELSE /\ \E k \in 1..Len(calls) : calls[k].ref = r /\ calls[k].cat = TypeOf(r)
         /\ ~LookupFailed(r)

\* C9: the rows held by the program are at every moment exactly the rows
\* appended so far, in the order of their appending (none changed, dropped or
\* repeated); when the run ends, a resource has one row when its lookup
\* returned and none otherwise, and the rows follow the adapter order and,
\* inside an adapter, the listing order; a report that is written holds each
\* collected row once, in that order; and with no row no file is written.
C9_EachRowOnceInOrder ==
    /\ ~Exited => all_results \o results = collected
    /\ csv # <<>> =>
          /\ collected # <<>>
          /\ csv[1].header = fieldnames
          /\ csv[1].lines = [n \in 1..Len(collected) |-> CsvLine(collected[n])]
    /\ Exited =>
          /\ IsSubsequence([n \in 1..Len(collected) |-> collected[n].ResourceId],
                           AuditOrder)
          /\ \A r \in Resources :
                Cardinality({n \in 1..Len(collected) :
                               collected[n].ResourceId = r
                               /\ collected[n].ResourceType = TypeOf(r)})
                   = IF LookupReturned(r) THEN 1 ELSE 0
    /\ Completed => ((csv = <<>>) <=> (collected = <<>>))

\* a completed run that wrote rows of at least three adapters' categories
\* although one lookup had failed
C9_Witness ==
    /\ Completed
    /\ Len(ReportLines) >= 4
    /\ RowCount(ServiceRef(1, 1)) = 1
    /\ RowCount(LogGroupRef(2)) = 1
    /\ RowCount(NatGatewayRef(1)) = 1
    /\ \E r \in Resources : LookupFailed(r)

\* C10: main returns 1 exactly when an error escaped the per-resource and
\* per-category handlers (then "Audit failed" is logged), and 0 in every other
\* run, also when lookups or listings failed and were swallowed.
C10_ExitCode ==
    Exited =>
        /\ exitCode \in {ExitSuccess, <<1>>}
        /\ (exitCode = <<1>>) <=> SomeErrorEscaped
        /\ (exitCode = <<1>>) <=> Logged("ERROR", "Audit failed", NoRef)
        /\ (exitCode = <<0>>) <=> (calls[Len(calls)].op = "print_summary")

\* a run that returns 0 although a listing and a lookup failed
C10_Witness ==
    /\ Exited
    /\ exitCode = <<0>>
    /\ Raised("list_dashboards", NoRef)
    /\ \E r \in Resources : LookupFailed(r)

====
